---- MODULE Spec2Model ----
(***************************************************************************)
(* Model of pyaxis.parse (src/pyaxis/pyaxis.py): the PC-Axis text is split *)
(* into metadata and data, the metadata is tokenized and decoded into a    *)
(* dictionary, the STUB/HEADING dimensions are looked up, and the data     *)
(* frame is built from the cartesian product of the dimension members and  *)
(* the data tokens.                                                        *)
(*                                                                         *)
(* A Python str is a sequence of one-character strings, so that the        *)
(* regular expressions and the str methods are computed character by       *)
(* character.  A Python exception is a record in the variable error.       *)
(***************************************************************************)
EXTENDS Integers, Sequences, FiniteSets, TLC

VARIABLES
    pc,                 \* position of parse(): the statement to run next
    pc_axis,            \* the file contents read by read() (line 251)
    metadata_elements,  \* list of 'ATTRIBUTE=VALUES' strings (line 259)
    raw_data,           \* the data section (line 259)
    metadata,           \* dict: attribute name -> list of values (line 262)
    data_values,        \* list of tokens, floats after build_dataframe (265)
    dimension_names,    \* list of str (line 268)
    dimension_members,  \* list of list of str (line 268)
    data,               \* the data frame: a sequence of rows (line 271)
    parsed_pc_axis,     \* what parse() returns (lines 274-278)
    error               \* the exception that ended parse(), if any

vars == <<pc, pc_axis, metadata_elements, raw_data, metadata, data_values,
          dimension_names, dimension_members, data, parsed_pc_axis, error>>

----------------------------------------------------------------------------
(* Bounds of the model *)

\* the data blocks have 0..MaxTokens tokens
MaxTokens == 8

\* the value blobs of SpecDecode hold 1..MaxItems quoted strings
MaxItems == 2

----------------------------------------------------------------------------
(* Generic helpers *)

Min(S) == CHOOSE x \in S : \A y \in S : x <= y

Max(S) == CHOOSE x \in S : \A y \in S : x >= y

RECURSIVE Flatten(_)
Flatten(ss) == IF ss = <<>> THEN <<>> ELSE Head(ss) \o Flatten(Tail(ss))

\* numpy.nan, also the missing-value marker of pandas
NaN == [nan |-> TRUE, neg |-> FALSE, digits |-> 0, scale |-> 0]

NoError == [type |-> "None", key |-> <<>>, line |-> 0]

ValueError(l) == [type |-> "ValueError", key |-> <<>>, line |-> l]

KeyError(k, l) == [type |-> "KeyError", key |-> k, line |-> l]

----------------------------------------------------------------------------
(* Python's str methods *)

\* str.isspace() of one character (the ASCII whitespace)
IsSpace(c) == c \in {" ", "\t", "\n", "\r", "\f"}

\* s.replace('\n', ' ').replace('\r', ' ')
ReplaceNewlines(s) ==
    [i \in 1..Len(s) |-> IF s[i] \in {"\n", "\r"} THEN " " ELSE s[i]]

\* whether sep occurs in s at index i
OccursAt(s, sep, i) ==
    /\ i + Len(sep) - 1 <= Len(s)
    /\ \A j \in 1..Len(sep) : s[i + j - 1] = sep[j]

\* s.split(sep) from index i on, start being where the current part began:
\* the occurrences of sep are taken left to right, without overlap
RECURSIVE SplitFrom(_, _, _, _)
SplitFrom(s, sep, start, i) ==
    IF i > Len(s) THEN << SubSeq(s, start, Len(s)) >>
    ELSE IF OccursAt(s, sep, i)
         THEN << SubSeq(s, start, i - 1) >>
              \o SplitFrom(s, sep, i + Len(sep), i + Len(sep))
         ELSE SplitFrom(s, sep, start, i + 1)

\* s.split(sep)
PySplit(s, sep) == SplitFrom(s, sep, 1, 1)

\* s.strip()
PyStrip(s) ==
    LET keep == {i \in 1..Len(s) : ~IsSpace(s[i])}
    IN  IF keep = {} THEN <<>> ELSE SubSeq(s, Min(keep), Max(keep))

\* s.rstrip(c): every trailing c is removed
PyRStrip(s, c) ==
    LET keep == {i \in 1..Len(s) : s[i] # c}
    IN  IF keep = {} THEN <<>> ELSE SubSeq(s, 1, Max(keep))

\* s.replace(c, '') for one character c
RECURSIVE PyRemove(_, _)
PyRemove(s, c) ==
    IF s = <<>> THEN <<>>
    ELSE (IF Head(s) = c THEN <<>> ELSE <<Head(s)>>) \o PyRemove(Tail(s), c)

\* s.split(): the maximal runs of non-whitespace, from index i on
RECURSIVE SplitWSFrom(_, _)
SplitWSFrom(s, i) ==
    IF i > Len(s) THEN <<>>
    ELSE IF IsSpace(s[i]) THEN SplitWSFrom(s, i + 1)
    ELSE LET stops == {j \in i..Len(s) : IsSpace(s[j])}
             e == IF stops = {} THEN Len(s) ELSE Min(stops) - 1
         IN  << SubSeq(s, i, e) >> \o SplitWSFrom(s, e + 1)

\* s.split()
PySplitWS(s) == SplitWSFrom(s, 1)

----------------------------------------------------------------------------
(* float(value), for tokens over the characters 0-9 . + - and characters   *)
(* that occur in no float literal (the tokens of the model use x N / A):   *)
(* an optional sign, then digits with at most one point and at least one   *)
(* digit.  The value is kept as sign, digits and scale (number of digits   *)
(* after the point), trailing zeros of the fraction removed, so that '1'   *)
(* and '1.0' are the same float.                                           *)

Digits == <<"0", "1", "2", "3", "4", "5", "6", "7", "8", "9">>

IsDigit(c) == \E d \in 1..10 : Digits[d] = c

DigitValue(c) == (CHOOSE d \in 1..10 : Digits[d] = c) - 1

RECURSIVE DigitsValue(_)
DigitsValue(s) ==
    IF s = <<>> THEN 0
    ELSE 10 * DigitsValue(SubSeq(s, 1, Len(s) - 1)) + DigitValue(s[Len(s)])

RECURSIVE Normalize(_, _, _)
Normalize(neg, digits, scale) ==
    IF scale > 0 /\ digits % 10 = 0
    THEN Normalize(neg, digits \div 10, scale - 1)
    ELSE [nan |-> FALSE, neg |-> neg, digits |-> digits, scale |-> scale]

Signed(tok) == tok # <<>> /\ tok[1] \in {"+", "-"}

Unsigned(tok) == IF Signed(tok) THEN Tail(tok) ELSE tok

\* whether float(tok) raises ValueError
FloatRaises(tok) ==
    LET body == Unsigned(tok)
    IN  ~ /\ \A i \in 1..Len(body) : IsDigit(body[i]) \/ body[i] = "."
          /\ Cardinality({i \in 1..Len(body) : body[i] = "."}) <= 1
          /\ \E i \in 1..Len(body) : IsDigit(body[i])

\* float(tok), where it does not raise
PyFloat(tok) ==
    LET body   == Unsigned(tok)
        points == {i \in 1..Len(body) : body[i] = "."}
    IN  Normalize(Signed(tok) /\ tok[1] = "-",
                  DigitsValue(PyRemove(body, ".")),
                  IF points = {} THEN 0 ELSE Len(body) - Min(points))

----------------------------------------------------------------------------
(* re.findall('([^=]+=[^=]+)(?:;|$)', s), line 130.  A match at p takes    *)
(* the run of non-'=' characters from p (at least one) up to the first     *)
(* '=', that '=', and then the longest run of non-'=' characters (at least *)
(* one) that is followed by ';' or ends the string; the ';' is consumed    *)
(* but is not part of the group.  (The text holds no line break: line 125  *)
(* replaced them, so '$' is the end of the string.)                        *)

\* the first index >= from where s holds c, or 0
FirstIndexOf(s, c, from) ==
    LET at == {i \in from..Len(s) : s[i] = c}
    IN  IF at = {} THEN 0 ELSE Min(at)

\* the last index of the group of a match starting at p, or 0 for no match
AttributeMatchEnd(s, p) ==
    LET q == FirstIndexOf(s, "=", p)
        r == IF q = 0 \/ FirstIndexOf(s, "=", q + 1) = 0
             THEN Len(s) + 1 ELSE FirstIndexOf(s, "=", q + 1)
        ends == {e \in (q + 1)..(r - 1) : e = Len(s) \/ s[e + 1] = ";"}
    IN  IF q = 0 \/ q = p \/ ends = {} THEN 0 ELSE Max(ends)

RECURSIVE FindallAttributesFrom(_, _)
FindallAttributesFrom(s, p) ==
    IF p > Len(s) THEN <<>>
    ELSE LET e == AttributeMatchEnd(s, p)
         IN  IF e = 0 THEN FindallAttributesFrom(s, p + 1)
             ELSE << SubSeq(s, p, e) >>
                  \o FindallAttributesFrom(s, IF e = Len(s) THEN e + 1 ELSE e + 2)

FindallAttributes(s) == FindallAttributesFrom(s, 1)

----------------------------------------------------------------------------
(* re.findall('"[ ]*(.+?)[ ]*"+?', values), line 157.  A match at p needs  *)
(* a '"' at p; '[ ]*' is greedy (the most spaces first), '(.+?)' is lazy   *)
(* (the shortest group first, of at least one character, none a line       *)
(* feed), the second '[ ]*' takes every space after the group, and '"+?'   *)
(* is lazy: exactly one '"'.                                               *)

\* the first index >= j where s holds no space, or Len(s) + 1
SkipSpaces(s, j) ==
    LET at == {i \in j..Len(s) : s[i] # " "}
    IN  IF at = {} THEN Len(s) + 1 ELSE Min(at)

\* the last indexes h a group starting at g can have
GroupEnds(s, g) ==
    {h \in g..Len(s) :
        /\ \A x \in g..h : s[x] # "\n"
        /\ LET j == SkipSpaces(s, h + 1) IN j <= Len(s) /\ s[j] = "\""}

\* <<g, h>>: the group s[g..h] of the match starting at p; <<0, 0>>: no match
ValueMatch(s, p) ==
    LET spaces == SkipSpaces(s, p + 1) - (p + 1)
        starts == {g \in (p + 1)..(p + 1 + spaces) : GroupEnds(s, g) # {}}
    IN  IF s[p] # "\"" \/ starts = {} THEN <<0, 0>>
        ELSE <<Max(starts), Min(GroupEnds(s, Max(starts)))>>

RECURSIVE FindallValuesFrom(_, _)
FindallValuesFrom(s, p) ==
    IF p > Len(s) THEN <<>>
    ELSE LET m == ValueMatch(s, p)
         IN  IF m[1] = 0 THEN FindallValuesFrom(s, p + 1)
             ELSE << SubSeq(s, m[1], m[2]) >>
                  \o FindallValuesFrom(s, SkipSpaces(s, m[2] + 1) + 1)

FindallValues(s) == FindallValuesFrom(s, 1)

----------------------------------------------------------------------------
(* The words of the format *)

STUB == <<"S", "T", "U", "B">>

HEADING == <<"H", "E", "A", "D", "I", "N", "G">>

DATA == <<"D", "A", "T", "A">>

\* 'DATA=', the separator of line 128
DataMarker == <<"D", "A", "T", "A", "=">>

\* 'VALUES(' + name + ')', lines 183 and 193
ValuesKey(name) == <<"V", "A", "L", "U", "E", "S", "(">> \o name \o <<")">>

----------------------------------------------------------------------------
(* metadata_extract, lines 113-136 *)

\* a split that never fails: str.partition, whose data part is empty when
\* the marker is absent (a faulty variant of SplitSections)
SplitSectionsPartition(text) ==
    LET at == {i \in 1..Len(text) : OccursAt(text, DataMarker, i)}
    IN  IF at = {} THEN << text, <<>> >>
        ELSE << SubSeq(text, 1, Min(at) - 1),
                SubSeq(text, Min(at) + Len(DataMarker), Len(text)) >>

\* line 128: the parts the two names metadata, data are unpacked from
SplitSections(text) == PySplit(text, DataMarker)

\* lines 133-134: item.strip().rstrip(';') of every item
CleanAttributes(items) ==
    [i \in 1..Len(items) |-> PyRStrip(PyStrip(items[i]), ";")]

\* the function: raised (the unpacking of line 128 got other than two
\* parts), or the pair it returns
MetadataExtract(text) ==
    LET parts == SplitSections(ReplaceNewlines(text))
    IN  IF Len(parts) # 2
        THEN [raised |-> TRUE, attributes |-> <<>>, data |-> <<>>]
        ELSE [raised |-> FALSE,
              attributes |-> CleanAttributes(FindallAttributes(parts[1])),
              data |-> PyRStrip(PyStrip(parts[2]), ";")]

----------------------------------------------------------------------------
(* metadata_split_to_dict, lines 139-159 *)

\* metadata[name] = values (line 157): a dict assignment
DictAssign(dict, name, values) ==
    [k \in (DOMAIN dict) \cup {name} |-> IF k = name THEN values ELSE dict[k]]

\* re.findall('"(.+?)"', values): the quoted strings with the spaces
\* around their contents kept (a faulty variant of DecodeValues)
RECURSIVE FindallUntrimmedFrom(_, _)
FindallUntrimmedFrom(s, p) ==
    IF p > Len(s) THEN <<>>
    ELSE LET b == FirstIndexOf(s, "\"", p + 2)
         IN  IF s[p] # "\"" \/ b = 0 THEN FindallUntrimmedFrom(s, p + 1)
             ELSE << SubSeq(s, p + 1, b - 1) >> \o FindallUntrimmedFrom(s, b + 1)

DecodeValuesUntrimmed(values) == FindallUntrimmedFrom(values, 1)

\* line 157: the list of values of a value blob
DecodeValues(values) == FindallValues(values)

\* the loop of lines 151-157 from element i on; raised: the unpacking of
\* line 152 got other than two parts
RECURSIVE SplitToDictFrom(_, _, _)
SplitToDictFrom(elements, i, dict) ==
    IF i > Len(elements) THEN [raised |-> FALSE, dict |-> dict]
    ELSE LET parts == PySplit(elements[i], <<"=">>)
         IN  IF Len(parts) # 2 THEN [raised |-> TRUE, dict |-> dict]
             ELSE SplitToDictFrom(elements, i + 1,
                      DictAssign(dict, PyRemove(parts[1], "\""),
                                 DecodeValues(parts[2])))

MetadataSplitToDict(elements) == SplitToDictFrom(elements, 1, <<>>)

----------------------------------------------------------------------------
(* get_dimensions, lines 162-198 *)

\* the loops of lines 180-186 and 190-196 from name i on: the members of
\* every name, or the KeyError of the lookup of line `line`
RECURSIVE MembersFrom(_, _, _, _)
MembersFrom(md, names, i, line) ==
    IF i > Len(names) THEN [error |-> NoError, members |-> <<>>]
    ELSE IF ValuesKey(names[i]) \notin DOMAIN md
         THEN [error |-> KeyError(ValuesKey(names[i]), line), members |-> <<>>]
         ELSE LET rest == MembersFrom(md, names, i + 1, line)
              IN  [error |-> rest.error,
                   members |-> << md[ValuesKey(names[i])] >> \o rest.members]

GetDimensions(md) ==
    LET failed(e) == [error |-> e, names |-> <<>>, members |-> <<>>]
    IN  IF STUB \notin DOMAIN md THEN failed(KeyError(STUB, 179))
        ELSE LET stubs == MembersFrom(md, md[STUB], 1, 183)
             IN  IF stubs.error # NoError THEN failed(stubs.error)
                 ELSE IF HEADING \notin DOMAIN md
                 THEN failed(KeyError(HEADING, 189))
                 ELSE LET headings == MembersFrom(md, md[HEADING], 1, 193)
                      IN  IF headings.error # NoError
                          THEN failed(headings.error)
                          ELSE [error |-> NoError,
                                names |-> md[STUB] \o md[HEADING],
                                members |-> stubs.members \o headings.members]

----------------------------------------------------------------------------
(* build_dataframe, lines 201-230 *)

\* a product whose first list varies fastest (a faulty variant of Product)
RECURSIVE ProductFirstFastest(_)
ProductFirstFastest(lists) ==
    IF lists = <<>> THEN << <<>> >>
    ELSE LET n    == Len(lists)
             rest == ProductFirstFastest(SubSeq(lists, 1, n - 1))
         IN  Flatten([i \in 1..Len(lists[n]) |->
                        [j \in 1..Len(rest) |-> rest[j] \o << lists[n][i] >>]])

\* itertools.product(*lists), line 216: the last list varies fastest
RECURSIVE Product(_)
Product(lists) ==
    IF lists = <<>> THEN << <<>> >>
    ELSE LET rest == Product(Tail(lists))
         IN  Flatten([i \in 1..Len(Head(lists)) |->
                        [j \in 1..Len(rest) |-> << Head(lists)[i] >> \o rest[j]]])

\* lines 221-225: float(value), numpy.nan where float raises ValueError
ToFloat(value) == IF FloatRaises(value) THEN NaN ELSE PyFloat(value)

\* the label pandas gives a row that has none (NaN), told from every str
MissingLabel == <<"NaN">>

\* a zip of the tuples and the values, which stops at the shorter of the
\* two (a faulty variant of AssignSeries)
AssignSeriesZip(tuples, width, values) ==
    [i \in 1..(IF Len(tuples) < Len(values) THEN Len(tuples) ELSE Len(values)) |->
        [labels |-> tuples[i], DATA |-> values[i]]]

\* lines 218 and 228.  The frame of line 218 has one row per tuple of the
\* product, indexed 0, 1, ...; pandas.Series(values) is indexed 0, 1, ...
\* too, and data['DATA'] = series aligns the series on the frame's index:
\* a row past the series gets NaN and a value past the rows is dropped.  A
\* frame with no row at all takes the index of a non-empty series instead,
\* its label columns filled with NaN.
AssignSeries(tuples, width, values) ==
    IF tuples = <<>> /\ values # <<>>
    THEN [i \in 1..Len(values) |->
            [labels |-> [c \in 1..width |-> MissingLabel], DATA |-> values[i]]]
    ELSE [i \in 1..Len(tuples) |->
            [labels |-> tuples[i],
             DATA |-> IF i <= Len(values) THEN values[i] ELSE NaN]]

\* a conversion that leaves out the values float() rejects, so that the
\* later values move up (a faulty variant of BuildDataframe)
BuildDataframeSkipping(names, members, values) ==
    LET floats == Flatten([i \in 1..Len(values) |->
                     IF FloatRaises(values[i]) THEN <<>>
                     ELSE << PyFloat(values[i]) >>])
    IN  [data_values |-> floats,
         data |-> [columns |-> names \o <<DATA>>,
                   rows |-> AssignSeries(Product(members), Len(names), floats)]]

BuildDataframe(names, members, values) ==
    LET floats == [i \in 1..Len(values) |-> ToFloat(values[i])]
    IN  [data_values |-> floats,
         data |-> [columns |-> names \o <<DATA>>,
                   rows |-> AssignSeries(Product(members), Len(names), floats)]]

----------------------------------------------------------------------------
(* The documents parse() is given: a metadata section of declarations      *)
(* NAME=VALUES; one to a line, then the data block.                        *)

Quoted(text) == <<"\"">> \o text \o <<"\"">>

\* NAME=VALUES; and the line break
Declaration(name, values) == name \o <<"=">> \o values \o <<";", "\n">>

R == <<"R">>

Q == <<"Q">>

Y == <<"Y">>

NOTE == <<"N", "O", "T", "E">>

\* no STUB; STUB="R"; STUB="R","Q";
StubDeclarations ==
    { <<>>,
      Declaration(STUB, Quoted(R)),
      Declaration(STUB, Quoted(R) \o <<",">> \o Quoted(Q)) }

\* no HEADING; HEADING="Y";
HeadingDeclarations == { <<>>, Declaration(HEADING, Quoted(Y)) }

\* no VALUES(R); VALUES(R)="N" "S";
ValuesRDeclarations ==
    { <<>>,
      Declaration(ValuesKey(R), Quoted(<<"N">>) \o <<" ">> \o Quoted(<<"S">>)) }

\* no VALUES(Q); VALUES(Q)="u","v";
ValuesQDeclarations ==
    { <<>>,
      Declaration(ValuesKey(Q), Quoted(<<"u">>) \o <<",">> \o Quoted(<<"v">>)) }

\* no VALUES(Y); VALUES(Y)="a" "b"; VALUES(Y)="";
ValuesYDeclarations ==
    { <<>>,
      Declaration(ValuesKey(Y), Quoted(<<"a">>) \o <<" ">> \o Quoted(<<"b">>)),
      Declaration(ValuesKey(Y), Quoted(<<>>)) }

\* NOTE="n1"; NOTE="n2"; (declared twice); NOTE="p;q"; NOTE="x=y";
NoteDeclarations ==
    { Declaration(NOTE, Quoted(<<"n", "1">>))
          \o Declaration(NOTE, Quoted(<<"n", "2">>)),
      Declaration(NOTE, Quoted(<<"p", ";", "q">>)),
      Declaration(NOTE, Quoted(<<"x", "=", "y">>)) }

\* the decimal digits of i, 0 <= i < 100
IntText(i) ==
    IF i < 10 THEN << Digits[i + 1] >>
    ELSE << Digits[(i \div 10) + 1], Digits[(i % 10) + 1] >>

\* the i-th token of a data block: i, i.5 or -i, each position its own
\* value; at position bad a token that is no number: . or N/A
TokenText(i, bad) ==
    IF i = bad THEN (IF i % 2 = 1 THEN <<".">> ELSE <<"N", "/", "A">>)
    ELSE IF i % 3 = 1 THEN IntText(i)
    ELSE IF i % 3 = 2 THEN IntText(i) \o <<".", "5">>
    ELSE <<"-">> \o IntText(i)

\* DATA= tok1 tok2 ... tokn;
DataBlock(n, bad) ==
    DataMarker \o Flatten([i \in 1..n |-> <<" ">> \o TokenText(i, bad)])
        \o <<";">>

\* no data block; one of 0..MaxTokens tokens, at most one of them no
\* number; two data blocks
DataBlocks ==
    {<<>>}
    \cup {DataBlock(n, bad) : n \in 0..MaxTokens, bad \in 0..MaxTokens}
    \cup {DataBlock(n, 0) \o <<"\n">> \o DataBlock(1, 0) : n \in {0, 4}}

\* the declarations of the dimensions, any of them left out
DimensionDeclarations ==
    { st \o he \o vr \o vq \o vy :
        st \in StubDeclarations, he \in HeadingDeclarations,
        vr \in ValuesRDeclarations, vq \in ValuesQDeclarations,
        vy \in ValuesYDeclarations }

\* the dimensions with every data block; and the dimensions, a NOTE and a
\* data block of no token or of four
Documents ==
    { dims \o db : dims \in DimensionDeclarations, db \in DataBlocks }
    \cup { dims \o no \o DataBlock(n, 0) :
            dims \in DimensionDeclarations, no \in NoteDeclarations,
            n \in {0, 4} }

----------------------------------------------------------------------------
(* parse(), lines 234-278 *)

NotReturned == [returned |-> FALSE, METADATA |-> <<>>,
                DATA |-> [columns |-> <<>>, rows |-> <<>>]]

Init ==
    /\ pc = "metadata_extract"
    /\ pc_axis \in Documents
    /\ metadata_elements = <<>>
    /\ raw_data = <<>>
    /\ metadata = <<>>
    /\ data_values = <<>>
    /\ dimension_names = <<>>
    /\ dimension_members = <<>>
    /\ data = [columns |-> <<>>, rows |-> <<>>]
    /\ parsed_pc_axis = NotReturned
    /\ error = NoError

\* the exception e leaves parse()
Raise(e) == pc' = "raised" /\ error' = e

\* line 259
ParseMetadataExtract ==
    /\ pc = "metadata_extract"
    /\ LET r == MetadataExtract(pc_axis)
       IN  IF r.raised
           THEN /\ Raise(ValueError(128))
                /\ UNCHANGED <<metadata_elements, raw_data>>
           ELSE /\ metadata_elements' = r.attributes
                /\ raw_data' = r.data
                /\ pc' = "metadata_split_to_dict"
                /\ error' = error
    /\ UNCHANGED <<pc_axis, metadata, data_values, dimension_names,
                   dimension_members, data, parsed_pc_axis>>

\* line 262
ParseMetadataSplitToDict ==
    /\ pc = "metadata_split_to_dict"
    /\ LET r == MetadataSplitToDict(metadata_elements)
       IN  IF r.raised
           THEN Raise(ValueError(152)) /\ UNCHANGED metadata
           ELSE metadata' = r.dict /\ pc' = "split" /\ error' = error
    /\ UNCHANGED <<pc_axis, metadata_elements, raw_data, data_values,
                   dimension_names, dimension_members, data, parsed_pc_axis>>

\* line 265
ParseSplit ==
    /\ pc = "split"
    /\ data_values' = PySplitWS(raw_data)
    /\ pc' = "get_dimensions"
    /\ UNCHANGED <<pc_axis, metadata_elements, raw_data, metadata,
                   dimension_names, dimension_members, data, parsed_pc_axis,
                   error>>

\* line 268
ParseGetDimensions ==
    /\ pc = "get_dimensions"
    /\ LET r == GetDimensions(metadata)
       IN  IF r.error # NoError
           THEN Raise(r.error) /\ UNCHANGED <<dimension_names, dimension_members>>
           ELSE /\ dimension_names' = r.names
                /\ dimension_members' = r.members
                /\ pc' = "build_dataframe"
                /\ error' = error
    /\ UNCHANGED <<pc_axis, metadata_elements, raw_data, metadata, data_values,
                   data, parsed_pc_axis>>

\* line 271; build_dataframe converts the list data_values in place
ParseBuildDataframe ==
    /\ pc = "build_dataframe"
    /\ LET r == BuildDataframe(dimension_names, dimension_members, data_values)
       IN  data' = r.data /\ data_values' = r.data_values
    /\ pc' = "return"
    /\ UNCHANGED <<pc_axis, metadata_elements, raw_data, metadata,
                   dimension_names, dimension_members, parsed_pc_axis, error>>

\* lines 274-278
ParseReturn ==
    /\ pc = "return"
    /\ parsed_pc_axis' = [returned |-> TRUE, METADATA |-> metadata, DATA |-> data]
    /\ pc' = "done"
    /\ UNCHANGED <<pc_axis, metadata_elements, raw_data, metadata, data_values,
                   dimension_names, dimension_members, data, error>>

Next ==
    \/ ParseMetadataExtract
    \/ ParseMetadataSplitToDict
    \/ ParseSplit
    \/ ParseGetDimensions
    \/ ParseBuildDataframe
    \/ ParseReturn

Spec == Init /\ [][Next]_vars

----------------------------------------------------------------------------
(* What the properties speak of *)

\* whether sub occurs in s
Contains(s, sub) == \E i \in 1..Len(s) : OccursAt(s, sub, i)

\* the whitespace-delimited tokens of the data block, as text
Tokens == PySplitWS(raw_data)

\* the rows of the table parse() returned
Rows == parsed_pc_axis.DATA.rows

\* the names under STUB, then those under HEADING, of the metadata map
Listed ==
    (IF STUB \in DOMAIN metadata THEN metadata[STUB] ELSE <<>>)
        \o (IF HEADING \in DOMAIN metadata THEN metadata[HEADING] ELSE <<>>)

\* the member lists of the dimensions, STUB dimensions first (defined when
\* every listed name has its VALUES entry)
Members == [d \in 1..Len(Listed) |-> metadata[ValuesKey(Listed[d])]]

\* the product of the member counts of dimensions d..Len(Members)
RECURSIVE SizeFrom(_)
SizeFrom(d) ==
    IF d > Len(Members) THEN 1 ELSE Len(Members[d]) * SizeFrom(d + 1)

Size == SizeFrom(1)

\* the labels of combination i (from 0) in row-major order: dimension d
\* advances once every SizeFrom(d + 1) combinations
Combination(i) ==
    [d \in 1..Len(Members) |->
        Members[d][((i \div SizeFrom(d + 1)) % Len(Members[d])) + 1]]

----------------------------------------------------------------------------
(* C1: when parse() returns for a document whose data block has exactly    *)
(* as many tokens as the product of the member counts, row i (from 0)      *)
(* carries the labels of the i-th combination of the members, STUB         *)
(* dimensions then HEADING dimensions, the last dimension varying          *)
(* fastest, and the numeric value of token i.                              *)
C1_RowsFollowRowMajorOrder ==
    (parsed_pc_axis.returned /\ Len(Tokens) = Size) =>
        /\ Len(Rows) = Size
        /\ \A i \in 1..Len(Rows) :
            /\ Rows[i].labels = Combination(i - 1)
            /\ Rows[i].DATA = ToFloat(Tokens[i])

\* three dimensions of two members each and eight tokens gave eight rows
C1_Witness ==
    /\ parsed_pc_axis.returned
    /\ Listed = <<R, Q, Y>>
    /\ Len(Tokens) = 8
    /\ Size = 8
    /\ Len(Rows) = 8
    /\ Rows[6].labels = << <<"S">>, <<"u">>, <<"b">> >>

----------------------------------------------------------------------------
(* C2: when the number of tokens of the data block differs from the        *)
(* product of the member counts, parse() ends in an error and returns no   *)
(* table: a table is returned only when the two counts agree.              *)
C2_CountMismatchIsAnError ==
    parsed_pc_axis.returned => Len(Tokens) = Size

----------------------------------------------------------------------------
(* C3: a name declared more than once in the metadata maps to the values   *)
(* of all its declarations, concatenated in declaration order.             *)

\* the name of a fragment NAME=VALUES
FragmentName(element) == PyRemove(PySplit(element, <<"=">>)[1], "\"")

\* the decoded values of every fragment named name, in order
DeclaredValues(name) ==
    Flatten([i \in 1..Len(metadata_elements) |->
        IF FragmentName(metadata_elements[i]) = name
        THEN DecodeValues(PySplit(metadata_elements[i], <<"=">>)[2])
        ELSE <<>>])

C3_RepeatedNamesAppend ==
    (pc \notin {"metadata_extract", "metadata_split_to_dict", "raised"}) =>
        \A name \in DOMAIN metadata : metadata[name] = DeclaredValues(name)

----------------------------------------------------------------------------
(* C4: a token that float() rejects never makes parse() fail (no exception *)
(* comes from build_dataframe), and in the table returned every row that   *)
(* has a token at its own position carries that token's value: NaN where   *)
(* float() rejects the token, its number otherwise, so that no row is      *)
(* shifted.                                                                *)
C4_UnparsableTokenIsLocal ==
    /\ pc = "raised" => error.line \in {128, 152, 179, 183, 189, 193}
    /\ parsed_pc_axis.returned =>
        \A i \in 1..Len(Rows) :
            i <= Len(Tokens) =>
                Rows[i].DATA = (IF FloatRaises(Tokens[i]) THEN NaN
                                ELSE PyFloat(Tokens[i]))

\* a rejected token in the middle of a full data block: NaN in its row, and
\* the rows before and after it carry their own tokens' numbers
C4_Witness ==
    /\ parsed_pc_axis.returned
    /\ Len(Tokens) = 4 /\ Len(Rows) = 4
    /\ Tokens[2] = <<"N", "/", "A">>
    /\ Rows[2].DATA = NaN
    /\ Rows[1].DATA = [nan |-> FALSE, neg |-> FALSE, digits |-> 1, scale |-> 0]
    /\ Rows[3].DATA = [nan |-> FALSE, neg |-> TRUE, digits |-> 3, scale |-> 0]
    /\ Rows[4].DATA = [nan |-> FALSE, neg |-> FALSE, digits |-> 4, scale |-> 0]

----------------------------------------------------------------------------
(* C5: for a document that does not contain DATA=, parse() ends with the   *)
(* exception of the section split (line 128), before any attribute is      *)
(* tokenized (line 130) or any dimension looked up, and returns nothing.   *)
C5_NoMarkerFailsAtSplit ==
    (pc # "metadata_extract" /\ ~Contains(pc_axis, DataMarker)) =>
        /\ pc = "raised"
        /\ error = ValueError(128)
        /\ metadata_elements = <<>>
        /\ metadata = <<>>
        /\ dimension_names = <<>>
        /\ ~parsed_pc_axis.returned

\* a document with declarations and no data block has been rejected
C5_Witness ==
    /\ pc = "raised"
    /\ error = ValueError(128)
    /\ ~Contains(pc_axis, DataMarker)
    /\ Contains(pc_axis, STUB)
    /\ Contains(pc_axis, ValuesKey(R))

----------------------------------------------------------------------------
(* C6: when some name listed under STUB or HEADING has no VALUES(name)     *)
(* entry in the metadata map, get_dimensions fails with the KeyError of    *)
(* the first such name (STUB names before HEADING names) and parse()       *)
(* returns nothing.                                                        *)
C6_FirstMissingNameIsReported ==
    LET missing == {d \in 1..Len(Listed) :
                        ValuesKey(Listed[d]) \notin DOMAIN metadata}
    IN  (pc \in {"build_dataframe", "return", "done", "raised"}
            /\ error.line \notin {128, 152} /\ missing # {}) =>
            /\ pc = "raised"
            /\ error.type = "KeyError"
            /\ error.key = ValuesKey(Listed[Min(missing)])
            /\ ~parsed_pc_axis.returned

\* what does hold of the code: the same, for the metadata maps that have a
\* STUB entry (without one, line 179 raises KeyError('STUB') first)
C6_HoldsWhereStubIsDeclared ==
    LET missing == {d \in 1..Len(Listed) :
                        ValuesKey(Listed[d]) \notin DOMAIN metadata}
    IN  (pc \in {"build_dataframe", "return", "done", "raised"}
            /\ error.line \notin {128, 152} /\ missing # {}
            /\ STUB \in DOMAIN metadata) =>
            /\ pc = "raised"
            /\ error.type = "KeyError"
            /\ error.key = ValuesKey(Listed[Min(missing)])
            /\ ~parsed_pc_axis.returned

----------------------------------------------------------------------------
(* C7: for a well-formed document (one parse() returns a table for, whose  *)
(* dimensions each have at least one member or whose token count is the    *)
(* product of the member counts), the number of rows is the product of     *)
(* the member counts of all dimensions.                                    *)
C7_RowCountIsProduct ==
    (/\ parsed_pc_axis.returned
     /\ \/ \A d \in 1..Len(Members) : Len(Members[d]) >= 1
        \/ Len(Tokens) = Size) =>
        Len(Rows) = Size

\* two dimensions of two members each gave four rows
C7_Witness ==
    /\ parsed_pc_axis.returned
    /\ Listed = <<R, Y>>
    /\ Size = 4
    /\ Len(Rows) = 4
    /\ Len(Tokens) = 4

----------------------------------------------------------------------------
(* C8: for a metadata segment made of declarations NAME="..."; the         *)
(* tokenizer yields one fragment per declaration, in source order, each    *)
(* the declaration without its ';' and the whitespace around it, also      *)
(* when a quoted value contains ';' or '='.                                *)

\* the elements of a finite set of integers in increasing order
RECURSIVE Sorted(_)
Sorted(S) == IF S = {} THEN <<>> ELSE << Min(S) >> \o Sorted(S \ {Min(S)})

\* the indexes of the ';' of s outside double quotes: those with an even
\* number of '"' before them
Terminators(s) ==
    {i \in 1..Len(s) :
        /\ s[i] = ";"
        /\ Cardinality({j \in 1..(i - 1) : s[j] = "\""}) % 2 = 0}

\* the declarations of a metadata segment: the pieces that end at a ';'
\* outside double quotes and the piece after the last of them, trimmed, in
\* source order, the empty ones left out
Declarations(segment) ==
    LET cuts   == Sorted(Terminators(segment) \cup {Len(segment) + 1})
        pieces == [n \in 1..Len(cuts) |->
                     PyStrip(SubSeq(segment,
                                    IF n = 1 THEN 1 ELSE cuts[n - 1] + 1,
                                    cuts[n] - 1))]
    IN  Flatten([n \in 1..Len(pieces) |->
            IF pieces[n] = <<>> THEN <<>> ELSE << pieces[n] >>])

\* the text before the first DATA=
MetadataSegment == PySplit(ReplaceNewlines(pc_axis), DataMarker)[1]

C8_OneFragmentPerDeclaration ==
    (pc # "metadata_extract" /\ error.line # 128) =>
        metadata_elements = Declarations(MetadataSegment)

\* what does hold of the code: the same, for the segments whose
\* declarations each hold one '=' (none inside a quoted value)
C8_HoldsWithoutQuotedEquals ==
    (pc # "metadata_extract" /\ error.line # 128) =>
        \A declared \in {Declarations(MetadataSegment)} :
            (\A i \in 1..Len(declared) : \A piece \in {declared[i]} :
                Cardinality({x \in 1..Len(piece) : piece[x] = "="}) = 1)
            => metadata_elements = declared

----------------------------------------------------------------------------
(* C10: for a document that contains DATA= one or more times, the section  *)
(* split succeeds and cuts at the first occurrence: the data section is    *)
(* everything after it (trimmed as line 132 trims it).                     *)
C10_SplitAtFirstMarker ==
    (pc # "metadata_extract" /\ Contains(pc_axis, DataMarker)) =>
        /\ error # ValueError(128)
        /\ LET text  == ReplaceNewlines(pc_axis)
               first == Min({i \in 1..Len(text) : OccursAt(text, DataMarker, i)})
           IN  raw_data = PyRStrip(PyStrip(
                   SubSeq(text, first + Len(DataMarker), Len(text))), ";")

----------------------------------------------------------------------------
(* metadata_split_to_dict called on one fragment NOTE=<blob>, the blob     *)
(* being 1..MaxItems quoted strings with separators between them.          *)

\* what stands between the quotes: with spaces before, after and inside,
\* with the separator characters of the format, and a lone point
ItemContents ==
    { <<"A">>, <<" ", "A">>, <<"A", " ", " ">>, <<" ", "A", " ", "B", " ">>,
      <<"A", ",", "B">>, <<"p", ";", "q">>, <<"x", "=", "y">>, <<".">> }

\* what stands between two quoted strings
ItemSeparators == { <<" ">>, <<",">>, <<",", " ">>, <<" ", " ">> }

RECURSIVE BlobsOf(_)
BlobsOf(k) ==
    IF k = 1 THEN {Quoted(c) : c \in ItemContents}
    ELSE {b \o sep \o Quoted(c) :
            b \in BlobsOf(k - 1), sep \in ItemSeparators, c \in ItemContents}

DecodeElements ==
    { << NOTE \o <<"=">> \o blob >> :
        blob \in UNION {BlobsOf(k) : k \in 1..MaxItems} }

InitDecode ==
    /\ pc = "metadata_split_to_dict"
    /\ pc_axis = <<>>
    /\ metadata_elements \in DecodeElements
    /\ raw_data = <<>>
    /\ metadata = <<>>
    /\ data_values = <<>>
    /\ dimension_names = <<>>
    /\ dimension_members = <<>>
    /\ data = [columns |-> <<>>, rows |-> <<>>]
    /\ parsed_pc_axis = NotReturned
    /\ error = NoError

NextDecode == ParseMetadataSplitToDict

SpecDecode == InitDecode /\ [][NextDecode]_vars

----------------------------------------------------------------------------
(* C9: for a value blob of k >= 1 double-quoted strings separated by       *)
(* commas and/or whitespace, each holding no double quote and at least one *)
(* character that is no space, the decoder returns k strings in source     *)
(* order, the j-th the content of the j-th quoted string without its       *)
(* leading and trailing spaces.                                            *)

\* s without its leading and trailing spaces
TrimSpaces(s) ==
    LET keep == {i \in 1..Len(s) : s[i] # " "}
    IN  IF keep = {} THEN <<>> ELSE SubSeq(s, Min(keep), Max(keep))

\* the indexes of the double quotes of blob, in order
QuoteIndexes(blob) == Sorted({i \in 1..Len(blob) : blob[i] = "\""})

\* the content of the j-th quoted string of blob
Content(blob, j) ==
    SubSeq(blob, QuoteIndexes(blob)[2 * j - 1] + 1, QuoteIndexes(blob)[2 * j] - 1)

\* blob is k >= 1 quoted strings, each with a character that is no space,
\* with one or more commas or whitespace characters between two of them
\* and nothing else outside the quotes
WellShaped(blob) ==
    LET q == QuoteIndexes(blob)
        k == Len(q) \div 2
    IN  /\ Len(q) % 2 = 0 /\ k >= 1
        /\ q[1] = 1 /\ q[Len(q)] = Len(blob)
        /\ \A j \in 1..k : TrimSpaces(Content(blob, j)) # <<>>
        /\ \A j \in 1..(k - 1) :
            /\ q[2 * j + 1] > q[2 * j] + 1
            /\ \A x \in (q[2 * j] + 1)..(q[2 * j + 1] - 1) :
                blob[x] = "," \/ IsSpace(blob[x])

\* the blob of the fragment: what follows its first '='
BlobOf(element) ==
    SubSeq(element, FirstIndexOf(element, "=", 1) + 1, Len(element))

====
